---- MODULE Spec2Model ----
(***************************************************************************)
(* The rlox scanner (src/src/scanner.rs) and its token model               *)
(* (src/src/lexer/token.rs) as a state machine.  A source string is a      *)
(* sequence of one-character strings; the scanner's indices are the        *)
(* 0-based byte indices of the Rust code, so source_at(i) reads            *)
(* source[i + 1].  Sources are ASCII (source_at casts one byte to a char). *)
(***************************************************************************)
EXTENDS Integers, Sequences, FiniteSets, TLC

VARIABLES
    source,     \* Scanner.source
    start,      \* Scanner.start
    current,    \* Scanner.current
    line,       \* Scanner.line
    tokens,     \* the local `tokens` vector of scan_tokens
    pc,         \* position of the control flow inside scan_tokens
    result,     \* the value scan_tokens returned, once it has returned
    calls,      \* history: one record per completed scan_token call
    stdin,      \* run_prompt: the lines stdin().read_line has yet to return
    printed,    \* run_prompt: history of what Lox::run printed, per line read
    repl        \* run_prompt: position of the control flow ("off": no prompt loop)

\* The variables of run_prompt
replvars == <<stdin, printed, repl>>

vars == <<source, start, current, line, tokens, pc, result, calls, stdin, printed, repl>>

----------------------------------------------------------------------------
(* Bounds and input alphabet *)

\* A source is the concatenation of at most MaxPieces pieces.
MaxPieces == 3

\* Bound on the line numbers handed to Token::build on its own.
MaxBuildLine == 2

LF == "\n"
QUOTE == "\""
NUL == "NUL"

\* The pieces sources are built from: a character of every class the scanner
\* dispatches on, the words EOF and Number, the start of a line comment and
\* the start of a string literal that runs over a newline, and a string
\* literal that holds the start of a comment and an unknown character.
Pieces ==
    { <<".">>, <<"=">>, <<"!">>, <<"<">>, <<"/">>, <<" ">>, <<LF>>, <<QUOTE>>, <<"6">>,
      <<"o">>, <<"r">>, <<NUL>>, <<"E", "O", "F">>, <<"N", "u", "m", "b", "e", "r">>,
      <<"/", "/">>, <<QUOTE, LF>>, <<QUOTE, "/", "/", NUL, QUOTE>> }

RECURSIVE SourcesUpTo(_)
SourcesUpTo(n) ==
    IF n = 0 THEN { <<>> }
    ELSE LET prev == SourcesUpTo(n - 1)
         IN  prev \cup { s \o p : s \in prev, p \in Pieces }

----------------------------------------------------------------------------
(* Character classes (char::is_digit(10), is_alphabetic, is_alphanumeric on ASCII) *)

Digits == {"0", "1", "2", "3", "4", "5", "6", "7", "8", "9"}

Letters ==
    {"a", "b", "c", "d", "e", "f", "g", "h", "i", "j", "k", "l", "m",
     "n", "o", "p", "q", "r", "s", "t", "u", "v", "w", "x", "y", "z",
     "A", "B", "C", "D", "E", "F", "G", "H", "I", "J", "K", "L", "M",
     "N", "O", "P", "Q", "R", "S", "T", "U", "V", "W", "X", "Y", "Z"}

is_digit(c) == c \in Digits

is_alphabetic(c) == c \in Letters

is_alphanumeric(c) == is_alphabetic(c) \/ is_digit(c)

----------------------------------------------------------------------------
(* Token model: src/src/lexer/token.rs *)

Punctuation ==
    { [s |-> <<"(">>, t |-> "LeftParen"],
      [s |-> <<")">>, t |-> "RightParen"],
      [s |-> <<"{">>, t |-> "LeftBrace"],
      [s |-> <<"}">>, t |-> "RightBrace"],
      [s |-> <<",">>, t |-> "Comma"],
      [s |-> <<".">>, t |-> "Dot"],
      [s |-> <<"-">>, t |-> "Minus"],
      [s |-> <<"+">>, t |-> "Plus"],
      [s |-> <<";">>, t |-> "Semicolon"],
      [s |-> <<"/">>, t |-> "Slash"],
      [s |-> <<"*">>, t |-> "Star"] }

Operators ==
    { [s |-> <<"!">>, t |-> "Bang"],
      [s |-> <<"!", "=">>, t |-> "BangEqual"],
      [s |-> <<"=">>, t |-> "Equal"],
      [s |-> <<"=", "=">>, t |-> "EqualEqual"],
      [s |-> <<">">>, t |-> "Greater"],
      [s |-> <<">", "=">>, t |-> "GreaterEqual"],
      [s |-> <<"<">>, t |-> "Less"],
      [s |-> <<"<", "=">>, t |-> "LessEqual"] }

Keywords ==
    { [s |-> <<"a", "n", "d">>, t |-> "And"],
      [s |-> <<"c", "l", "a", "s", "s">>, t |-> "Class"],
      [s |-> <<"e", "l", "s", "e">>, t |-> "Else"],
      [s |-> <<"f", "a", "l", "s", "e">>, t |-> "False"],
      [s |-> <<"f", "u", "n">>, t |-> "Fun"],
      [s |-> <<"f", "o", "r">>, t |-> "For"],
      [s |-> <<"i", "f">>, t |-> "If"],
      [s |-> <<"n", "i", "l">>, t |-> "Nil"],
      [s |-> <<"o", "r">>, t |-> "Or"],
      [s |-> <<"p", "r", "i", "n", "t">>, t |-> "Print"],
      [s |-> <<"r", "e", "t", "u", "r", "n">>, t |-> "Return"],
      [s |-> <<"s", "u", "p", "e", "r">>, t |-> "Super"],
      [s |-> <<"t", "h", "i", "s">>, t |-> "This"],
      [s |-> <<"t", "r", "u", "e">>, t |-> "True"],
      [s |-> <<"v", "a", "r">>, t |-> "Var"],
      [s |-> <<"w", "h", "i", "l", "e">>, t |-> "While"] }

EofSpelling == { [s |-> <<"E", "O", "F">>, t |-> "Eof"] }

\* Variants without a #[strum(serialize = ...)] attribute: the derived
\* FromStr matches them on their own names.
Literals ==
    { [s |-> <<"I", "d", "e", "n", "t", "i", "f", "i", "e", "r">>, t |-> "Identifier"],
      [s |-> <<"S", "t", "r", "i", "n", "g">>, t |-> "String"],
      [s |-> <<"N", "u", "m", "b", "e", "r">>, t |-> "Number"] }

\* The match arms of the FromStr that #[derive(EnumString)] generates for TokenType.
TokenType == Punctuation \cup Operators \cup Literals \cup Keywords \cup EofSpelling

\* TokenType::from_str
from_str(lexeme) ==
    IF \E e \in TokenType : e.s = lexeme
    THEN [ok |-> TRUE, type_ |-> (CHOOSE e \in TokenType : e.s = lexeme).t]
    ELSE [ok |-> FALSE]

\* LoxError variants
InvalidToken(l, token) == [kind |-> "InvalidToken", line |-> l, token |-> token]

UnterminatedString(l) == [kind |-> "UnterminatedString", line |-> l]

UnterminatedFloat(l) == [kind |-> "UnterminatedFloat", line |-> l]

\* Token::new
Token_new(type_, lexeme, l) == [type_ |-> type_, lexeme |-> lexeme, line |-> l]

\* Token::build
Token_build(lexeme, l) ==
    LET r == from_str(lexeme)
    IN  IF r.ok
        THEN [ok |-> TRUE, token |-> Token_new(r.type_, lexeme, l)]
        ELSE [ok |-> FALSE, error |-> InvalidToken(l, lexeme)]

----------------------------------------------------------------------------
(* Scanner primitives: src/src/scanner.rs *)

\* utils::substring(&source, from, to): the slice source[from..to]
substring(s, from, to) == SubSeq(s, from + 1, to)

\* Scanner::source_at
source_at(i) == source[i + 1]

\* Scanner::is_at_end, with the cursor at cur
is_at_end(cur) == cur >= Len(source)

\* Scanner::peek, with the cursor at cur
peek(cur) == IF is_at_end(cur) THEN NUL ELSE source_at(cur)

\* Mutant of peek_next: past the end it yields the NUL sentinel, as peek does
peek_next_lenient(cur) ==
    IF cur + 1 >= Len(source)
    THEN [ok |-> TRUE, char |-> NUL]
    ELSE [ok |-> TRUE, char |-> source_at(cur + 1)]

\* Scanner::peek_next, with the cursor at cur
peek_next(cur) ==
    IF cur + 1 >= Len(source)
    THEN [ok |-> FALSE, error |-> UnterminatedFloat(line)]
    ELSE [ok |-> TRUE, char |-> source_at(cur + 1)]

\* Mutant of pop_if_exp_is_next: compares the character just consumed
pop_if_exp_is_next_prev(cur, exp) ==
    IF is_at_end(cur) \/ source_at(cur - 1) # exp
    THEN [some |-> FALSE, current |-> cur]
    ELSE [some |-> TRUE, current |-> cur + 1]

\* Scanner::pop_if_exp_is_next, with the cursor at cur: whether exp was
\* consumed, and the cursor afterwards
pop_if_exp_is_next(cur, exp) ==
    IF is_at_end(cur) \/ source_at(cur) # exp
    THEN [some |-> FALSE, current |-> cur]
    ELSE [some |-> TRUE, current |-> cur + 1]

Pending == [tag |-> "Pending"]

Ok(toks) == [tag |-> "Ok", tokens |-> toks]

Err(e) == [tag |-> "Err", error |-> e]

Call(from, to, outcome) == [start |-> from, end |-> to, outcome |-> outcome]

----------------------------------------------------------------------------
(* How a scan_token call ends inside the loop of scan_tokens.  Each is used *)
(* by an action that has already fixed start'.                              *)

\* Mutant of ReturnToken: the token is put in front of the tokens scanned so far
ReturnToken_prepend(tok, cur, l) ==
    /\ tokens' = <<tok>> \o tokens
    /\ current' = cur
    /\ line' = l
    /\ pc' = "loop"
    /\ calls' = Append(calls, Call(start', cur, "token"))
    /\ UNCHANGED <<source, result, replvars>>

\* scan_token returned Ok(Some(tok)): tokens.push(tok)
ReturnToken(tok, cur, l) ==
    /\ tokens' = Append(tokens, tok)
    /\ current' = cur
    /\ line' = l
    /\ pc' = "loop"
    /\ calls' = Append(calls, Call(start', cur, "token"))
    /\ UNCHANGED <<source, result, replvars>>

\* scan_token returned Ok(None)
ReturnNone(cur, l) ==
    /\ current' = cur
    /\ line' = l
    /\ pc' = "loop"
    /\ calls' = Append(calls, Call(start', cur, "skip"))
    /\ UNCHANGED <<source, tokens, result, replvars>>

\* Mutant of ReturnErr: the error of a scan_token call is dropped and the
\* loop goes on (`if let Ok(Some(token)) = self.scan_token()`)
ReturnErr_swallow(e, cur, l) ==
    /\ current' = cur
    /\ line' = l
    /\ pc' = "loop"
    /\ calls' = Append(calls, Call(start', cur, "error"))
    /\ UNCHANGED <<source, tokens, result, replvars>>

\* scan_token returned Err(e): the `?` of scan_tokens returns it at once and
\* the local token vector is dropped
ReturnErr(e, cur, l) ==
    /\ result' = Err(e)
    /\ tokens' = <<>>
    /\ current' = cur
    /\ line' = l
    /\ pc' = "done"
    /\ calls' = Append(calls, Call(start', cur, "error"))
    /\ UNCHANGED <<source, replvars>>

\* Ok(Some(Token::build(lexeme, self.line)?))
ReturnBuild(lexeme, cur, l) ==
    LET r == Token_build(lexeme, l)
    IN  IF r.ok THEN ReturnToken(r.token, cur, l) ELSE ReturnErr(r.error, cur, l)

----------------------------------------------------------------------------
(* scan_tokens and scan_token *)

Init ==
    /\ source \in SourcesUpTo(MaxPieces)
    /\ start = 0
    /\ current = 0
    /\ line = 1
    /\ tokens = <<>>
    /\ pc = "loop"
    /\ result = Pending
    /\ calls = <<>>
    /\ stdin = <<>>
    /\ printed = <<>>
    /\ repl = "off"

\* Mutant of PushEof: the end marker is Token::default(), whose line is 0
PushEof_default ==
    /\ pc = "loop"
    /\ is_at_end(current)
    /\ tokens' = Append(tokens, Token_new("Eof", <<>>, 0))
    /\ result' = Ok(tokens')
    /\ pc' = "done"
    /\ UNCHANGED <<source, start, current, line, calls, replvars>>

\* The loop of scan_tokens has ended: push the Eof token and return Ok(tokens)
PushEof ==
    /\ pc = "loop"
    /\ is_at_end(current)
    /\ tokens' = Append(tokens, Token_new("Eof", <<>>, line))
    /\ result' = Ok(tokens')
    /\ pc' = "done"
    /\ UNCHANGED <<source, start, current, line, calls, replvars>>

\* One more iteration: self.start = self.current; let c = self.pop()
Dispatch(chars) ==
    /\ pc = "loop"
    /\ ~is_at_end(current)
    /\ source_at(current) \in chars
    /\ start' = current

SinglePunct == {"(", ")", "{", "}", ",", ".", "-", "+", ";", "*"}

ScanPunct ==
    /\ Dispatch(SinglePunct)
    /\ ReturnBuild(<<source_at(current)>>, current + 1, line)

ScanOperator ==
    /\ Dispatch({"!", "=", "<", ">"})
    /\ LET c == source_at(current)
           n == pop_if_exp_is_next(current + 1, "=")
       IN  IF n.some
           THEN ReturnBuild(<<c, "=">>, n.current, line)
           ELSE ReturnBuild(<<c>>, n.current, line)

ScanSlash ==
    /\ Dispatch({"/"})
    /\ LET n == pop_if_exp_is_next(current + 1, "/")
       IN  IF n.some
           THEN /\ pc' = "comment"
                /\ current' = n.current
                /\ UNCHANGED <<source, line, tokens, result, calls, replvars>>
           ELSE ReturnBuild(<<"/">>, n.current, line)

\* Mutant of CommentPop: the loop condition lacks `&& !self.is_at_end()`
CommentPop_noend ==
    /\ pc = "comment"
    /\ peek(current) # LF
    /\ current' = current + 1
    /\ UNCHANGED <<source, start, line, tokens, pc, result, calls, replvars>>

\* Mutant of CommentPop: the comment also swallows the newline that ends it
CommentPop_eatnl ==
    /\ pc = "comment"
    /\ ~is_at_end(current)
    /\ current' = current + 1
    /\ UNCHANGED <<source, start, line, tokens, pc, result, calls, replvars>>

\* while self.peek() != '\n' && !self.is_at_end() { self.pop(); }
CommentPop ==
    /\ pc = "comment"
    /\ peek(current) # LF /\ ~is_at_end(current)
    /\ current' = current + 1
    /\ UNCHANGED <<source, start, line, tokens, pc, result, calls, replvars>>

\* Mutant of CommentEnd: a quote inside a comment ends the comment
CommentEnd_atquote ==
    /\ pc = "comment"
    /\ \/ ~(peek(current) # LF /\ ~is_at_end(current))
       \/ peek(current) = QUOTE
    /\ start' = start
    /\ ReturnNone(current, line)

CommentEnd ==
    /\ pc = "comment"
    /\ ~(peek(current) # LF /\ ~is_at_end(current))
    /\ start' = start
    /\ ReturnNone(current, line)

ScanWhitespace ==
    /\ Dispatch({" ", "\r", "\t"})
    /\ ReturnNone(current + 1, line)

\* Mutant of ScanNewline: the newline is skipped like other whitespace
ScanNewline_noinc ==
    /\ Dispatch({LF})
    /\ ReturnNone(current + 1, line)

ScanNewline ==
    /\ Dispatch({LF})
    /\ ReturnNone(current + 1, line + 1)

\* '"' => Token::new(TokenType::String, self.parse_string()?, self.line)
ScanQuote ==
    /\ Dispatch({QUOTE})
    /\ pc' = "string"
    /\ current' = current + 1
    /\ UNCHANGED <<source, line, tokens, result, calls, replvars>>

\* Mutant of StringPop: a newline inside a string literal is not counted
StringPop_noline ==
    /\ pc = "string"
    /\ peek(current) # QUOTE
    /\ ~is_at_end(current)
    /\ line' = line
    /\ current' = current + 1
    /\ UNCHANGED <<source, start, tokens, pc, result, calls, replvars>>

\* Mutant of StringPop: the loop of parse_string does not look for the end of
\* the input
StringPop_noend ==
    /\ pc = "string"
    /\ peek(current) # QUOTE
    /\ line' = IF peek(current) = LF THEN line + 1 ELSE line
    /\ current' = current + 1
    /\ UNCHANGED <<source, start, tokens, pc, result, calls, replvars>>

\* parse_string: one pass of `while self.peek() != '"'` that reaches the pop
StringPop ==
    /\ pc = "string"
    /\ peek(current) # QUOTE
    /\ ~is_at_end(current)
    /\ line' = IF peek(current) = LF THEN line + 1 ELSE line
    /\ current' = current + 1
    /\ UNCHANGED <<source, start, tokens, pc, result, calls, replvars>>

\* Mutant of StringUnterminated: the end of the input closes the literal
StringUnterminated_lenient ==
    /\ pc = "string"
    /\ peek(current) # QUOTE
    /\ is_at_end(current)
    /\ start' = start
    /\ ReturnToken(Token_new("String", substring(source, start + 1, current), line),
                   current, line)

StringUnterminated ==
    /\ pc = "string"
    /\ peek(current) # QUOTE
    /\ is_at_end(current)
    /\ start' = start
    /\ ReturnErr(UnterminatedString(line), current, line)

\* Mutant of StringClose: the lexeme is the raw slice, quotes included
StringClose_keepquotes ==
    /\ pc = "string"
    /\ peek(current) = QUOTE
    /\ start' = start
    /\ ReturnToken(Token_new("String", substring(source, start, current + 1), line),
                   current + 1, line)

\* parse_string after the loop: pop the closing quote, strip both quotes
StringClose ==
    /\ pc = "string"
    /\ peek(current) = QUOTE
    /\ start' = start
    /\ ReturnToken(Token_new("String", substring(source, start + 1, (current + 1) - 1), line),
                   current + 1, line)

ScanDigit ==
    /\ Dispatch({c \in Digits : is_digit(c)})
    /\ pc' = "number"
    /\ current' = current + 1
    /\ UNCHANGED <<source, line, tokens, result, calls, replvars>>

\* Ok(Some(Token::new(TokenType::Number, <source[start..current]>, self.line)))
ReturnNumber(cur) ==
    ReturnToken(Token_new("Number", substring(source, start, cur), line), cur, line)

\* parse_number: first `while self.peek().is_digit(10)`
NumberPop ==
    /\ pc = "number"
    /\ is_digit(peek(current))
    /\ current' = current + 1
    /\ UNCHANGED <<source, start, line, tokens, pc, result, calls, replvars>>

\* parse_number: `if self.peek() == '.' && self.peek_next()?.is_digit(10)`
NumberDot ==
    /\ pc = "number"
    /\ ~is_digit(peek(current))
    /\ start' = start
    /\ IF peek(current) = "."
       THEN LET n == peek_next(current)
            IN  IF ~n.ok
                THEN ReturnErr(n.error, current, line)
                ELSE IF is_digit(n.char)
                     THEN /\ pc' = "fraction"
                          /\ current' = current + 1
                          /\ UNCHANGED <<source, line, tokens, result, calls, replvars>>
                     ELSE ReturnNumber(current)
       ELSE ReturnNumber(current)

\* parse_number: second `while self.peek().is_digit(10)`
FractionPop ==
    /\ pc = "fraction"
    /\ is_digit(peek(current))
    /\ current' = current + 1
    /\ UNCHANGED <<source, start, line, tokens, pc, result, calls, replvars>>

FractionEnd ==
    /\ pc = "fraction"
    /\ ~is_digit(peek(current))
    /\ start' = start
    /\ ReturnNumber(current)

ScanAlphabetic ==
    /\ Dispatch({c \in Letters : is_alphabetic(c)})
    /\ pc' = "identifier"
    /\ current' = current + 1
    /\ UNCHANGED <<source, line, tokens, result, calls, replvars>>

\* parse_identifier: `while self.peek().is_alphanumeric()`
IdentifierPop ==
    /\ pc = "identifier"
    /\ is_alphanumeric(peek(current))
    /\ current' = current + 1
    /\ UNCHANGED <<source, start, line, tokens, pc, result, calls, replvars>>

\* Ok(Some(Token::build(&self.parse_identifier()?, self.line)?))
IdentifierEnd ==
    /\ pc = "identifier"
    /\ ~is_alphanumeric(peek(current))
    /\ start' = start
    /\ ReturnBuild(substring(source, start, current), current, line)

\* Mutant of ScanInvalid: an unknown character is skipped like whitespace
ScanInvalid_skip ==
    /\ pc = "loop"
    /\ ~is_at_end(current)
    /\ LET c == source_at(current)
       IN  /\ c \notin SinglePunct \cup {"!", "=", "<", ">", "/", " ", "\r", "\t", LF, QUOTE}
           /\ ~is_digit(c)
           /\ ~is_alphabetic(c)
           /\ start' = current
           /\ ReturnNone(current + 1, line)

\* the final else of scan_token
ScanInvalid ==
    /\ pc = "loop"
    /\ ~is_at_end(current)
    /\ LET c == source_at(current)
       IN  /\ c \notin SinglePunct \cup {"!", "=", "<", ">", "/", " ", "\r", "\t", LF, QUOTE}
           /\ ~is_digit(c)
           /\ ~is_alphabetic(c)
           /\ start' = current
           /\ ReturnErr(InvalidToken(line, <<c>>), current + 1, line)

Next ==
    \/ PushEof
    \/ ScanPunct
    \/ ScanOperator
    \/ ScanSlash
    \/ CommentPop
    \/ CommentEnd
    \/ ScanWhitespace
    \/ ScanNewline
    \/ ScanQuote
    \/ StringPop
    \/ StringUnterminated
    \/ StringClose
    \/ ScanDigit
    \/ NumberPop
    \/ NumberDot
    \/ FractionPop
    \/ FractionEnd
    \/ ScanAlphabetic
    \/ IdentifierPop
    \/ IdentifierEnd
    \/ ScanInvalid

Spec == Init /\ [][Next]_vars

----------------------------------------------------------------------------
(* Token::build on its own: the lexeme is held in source, the line in line *)

\* Lexemes handed to Token::build: every spelling of the table, every
\* spelling with its last character dropped or a character added, and the
\* identifier text of tests::build_invalid_token_throws_error.
BuildLexemes ==
    { e.s : e \in TokenType }
        \cup { SubSeq(e.s, 1, Len(e.s) - 1) : e \in TokenType }
        \cup { e.s \o <<"s">> : e \in TokenType }
        \cup { <<"t", "r", "a", "s", "h", "_", "s", "t", "r", "i", "n", "g">>,
               <<"e", "o", "f">>, <<"A", "N", "D">> }

BuildInit ==
    /\ source \in BuildLexemes
    /\ line \in 1..MaxBuildLine
    /\ start = 0
    /\ current = 0
    /\ tokens = <<>>
    /\ pc = "build"
    /\ result = Pending
    /\ calls = <<>>
    /\ stdin = <<>>
    /\ printed = <<>>
    /\ repl = "off"

Build ==
    /\ pc = "build"
    /\ result' = Token_build(source, line)
    /\ pc' = "built"
    /\ UNCHANGED <<source, start, current, line, tokens, calls, replvars>>

BuildNext == Build

BuildSpec == BuildInit /\ [][BuildNext]_vars

----------------------------------------------------------------------------
(* Lox::run_prompt and Lox::run: src/src/main.rs *)

\* At most MaxLines lines are typed before the input ends.
MaxLines == 2

\* At most MaxPrinted lines are scanned and printed (at the end of the input
\* read_line keeps returning the empty string).
MaxPrinted == 3

\* The text that ends the prompt loop
ExitText == <<"e", "x", "i", "t", "(", ")">>

\* input == "exit()\n"
ExitLine == ExitText \o <<LF>>

\* What is typed on a line, without its newline
ReplContents ==
    { ExitText, <<>>, <<"6", ".", "6", "6">>, <<"6", "6">>, <<QUOTE, "o", QUOTE>>,
      <<QUOTE, "o">>, <<"/", "/", "o">>, <<"/">>, <<"=", "=">>, <<".">>, <<" ">>,
      <<"o", "r">>, <<NUL>> }

\* The input streams of at most n lines, as the strings read_line returns:
\* every line ends with its newline, except possibly the last one
RECURSIVE StreamsUpTo(_)
StreamsUpTo(n) ==
    IF n = 0 THEN { <<>> }
    ELSE { <<>> }
            \cup { <<c>> : c \in ReplContents \ { <<>> } }
            \cup { <<c \o <<LF>>>> \o s : c \in ReplContents, s \in StreamsUpTo(n - 1) }

ReplInit ==
    /\ stdin \in StreamsUpTo(MaxLines)
    /\ printed = <<>>
    /\ repl = "prompt"
    /\ source = <<>>
    /\ start = 0
    /\ current = 0
    /\ line = 1
    /\ tokens = <<>>
    /\ pc = "idle"
    /\ result = Pending
    /\ calls = <<>>

\* stdin().read_line(&mut input): the next line, or nothing at the end of input
ReadLine == IF stdin = <<>> THEN <<>> ELSE Head(stdin)

\* Mutant of ReplRun: one scanner is kept over the lines and only its source
\* and cursor are replaced
ReplRun_reuse ==
    /\ repl = "prompt"
    /\ Len(printed) < MaxPrinted
    /\ ReadLine # ExitLine
    /\ stdin' = IF stdin = <<>> THEN <<>> ELSE Tail(stdin)
    /\ source' = ReadLine
    /\ start' = 0
    /\ current' = 0
    /\ line' = line
    /\ tokens' = <<>>
    /\ pc' = "loop"
    /\ result' = Pending
    /\ calls' = <<>>
    /\ repl' = "running"
    /\ UNCHANGED printed

\* run_prompt reads a line that is not "exit()\n": self.run(input) scans it
\* with Scanner::new(input)
ReplRun ==
    /\ repl = "prompt"
    /\ Len(printed) < MaxPrinted
    /\ ReadLine # ExitLine
    /\ stdin' = IF stdin = <<>> THEN <<>> ELSE Tail(stdin)
    /\ source' = ReadLine
    /\ start' = 0
    /\ current' = 0
    /\ line' = 1
    /\ tokens' = <<>>
    /\ pc' = "loop"
    /\ result' = Pending
    /\ calls' = <<>>
    /\ repl' = "running"
    /\ UNCHANGED printed

\* run_prompt reads "exit()\n": break
ReplExit ==
    /\ repl = "prompt"
    /\ ReadLine = ExitLine
    /\ stdin' = Tail(stdin)
    /\ repl' = "exited"
    /\ UNCHANGED <<source, start, current, line, tokens, pc, result, calls, printed>>

\* scan_tokens has returned: run prints the tokens, or run_prompt prints the
\* error, and the loop goes on
ReplPrint ==
    /\ repl = "running"
    /\ pc = "done"
    /\ printed' = Append(printed, [input |-> source, result |-> result])
    /\ repl' = "prompt"
    /\ UNCHANGED <<source, start, current, line, tokens, pc, result, calls, stdin>>

ReplNext ==
    \/ ReplRun
    \/ ReplExit
    \/ ReplPrint
    \/ PushEof
    \/ ScanPunct
    \/ ScanOperator
    \/ ScanSlash
    \/ CommentPop
    \/ CommentEnd
    \/ ScanWhitespace
    \/ ScanNewline
    \/ ScanQuote
    \/ StringPop
    \/ StringUnterminated
    \/ StringClose
    \/ ScanDigit
    \/ NumberPop
    \/ NumberDot
    \/ FractionPop
    \/ FractionEnd
    \/ ScanAlphabetic
    \/ IdentifierPop
    \/ IdentifierEnd
    \/ ScanInvalid

ReplSpec == ReplInit /\ [][ReplNext]_vars

----------------------------------------------------------------------------
(* Vocabulary of the properties *)

\* Number of newline characters in s
CountLF(s) == Cardinality({ i \in 1..Len(s) : s[i] = LF })

\* 1 + the number of newlines in source[0..pos]
LineAt(pos) == 1 + CountLF(SubSeq(source, 1, pos))

Succeeded == pc = "done" /\ result.tag = "Ok"

Failed == pc = "done" /\ result.tag = "Err"

IsTokenCall(c) == c.outcome = "token"

\* The scan_token calls that returned a token, in order: while the scan has
\* not failed, the k-th of them produced tokens[k].
TokenCalls == SelectSeq(calls, IsTokenCall)

\* First character of the lexeme of call c
FirstChar(c) == source[c.start + 1]

\* The source text of the lexeme of call c
Slice(c) == SubSeq(source, c.start + 1, c.end)

----------------------------------------------------------------------------
(* C1 *)

\* C1: a successful scan_tokens returns a sequence whose last element has
\* kind Eof and in which no other element has kind Eof.
C1_ExactlyOneEof ==
    Succeeded =>
        LET t == result.tokens
        IN  /\ Len(t) >= 1
            /\ t[Len(t)].type_ = "Eof"
            /\ \A i \in 1..(Len(t) - 1) : t[i].type_ # "Eof"

----------------------------------------------------------------------------
(* C2 *)

\* C2: scan_tokens returns either a token sequence or one error, never both;
\* it fails exactly when a scan_token call failed, that call is the last one
\* made (no lexeme to its right is scanned, every lexeme to its left
\* succeeded), and the tokens recognized before it are not returned.
C2_AllOrNothing ==
    pc = "done" =>
        /\ result.tag \in {"Ok", "Err"}
        /\ result.tag = "Ok" => DOMAIN result = {"tag", "tokens"}
        /\ result.tag = "Err" => DOMAIN result = {"tag", "error"} /\ tokens = <<>>
        /\ result.tag = "Err" <=> \E i \in 1..Len(calls) : calls[i].outcome = "error"
        /\ \A i \in 1..Len(calls) :
               calls[i].outcome = "error" =>
                   /\ i = Len(calls)
                   /\ \A j \in 1..(i - 1) : calls[j].end <= calls[i].start
        /\ result.tag = "Ok" => Len(result.tokens) = Len(TokenCalls) + 1

\* An error after a token had already been recognized
C2_Witness ==
    /\ Failed
    /\ Len(calls) >= 2
    /\ calls[1].outcome = "token"

----------------------------------------------------------------------------
(* C3 *)

\* Rank of a control position: inside a literal or comment, at the loop
\* condition, returned.
Rank == IF pc = "done" THEN 0 ELSE IF pc = "loop" THEN 1 ELSE 2

\* Decreases with every step of a scan
Variant == 3 * (Len(source) - current) + Rank

C3_Inv ==
    /\ current <= Len(source)
    /\ Len(calls) <= Len(source)
    /\ \A i \in 1..Len(calls) :
           /\ calls[i].end > calls[i].start
           /\ calls[i].start = (IF i = 1 THEN 0 ELSE calls[i - 1].end)
    /\ pc \notin {"loop", "done"} => current > start
    /\ pc # "done" => ENABLED Next
    /\ Succeeded => current = Len(source)

\* C3: scan_tokens terminates: every scan_token call advances `current` by at
\* least one or ends the scan, the loop runs at most length(source) times, a
\* successful scan ends with current = length(source), and every step
\* decreases a non-negative variant.
C3_Terminates == [](C3_Inv /\ Variant >= 0) /\ [][Variant' < Variant]_vars

\* A scan that took as many iterations as the source has characters
C3_Witness == Succeeded /\ Len(source) = MaxPieces /\ Len(calls) = Len(source)

----------------------------------------------------------------------------
(* C4 *)

\* C4 as stated: the line of every returned token is 1 + the number of
\* newlines strictly before the token's first character.
C4_LineOfFirstChar ==
    Succeeded =>
        /\ \A k \in 1..Len(TokenCalls) :
               result.tokens[k].line = LineAt(TokenCalls[k].start)
        /\ result.tokens[Len(result.tokens)].line = LineAt(Len(source))

\* C4 amended: the line of every returned token is 1 + the number of newlines
\* strictly before the token's first character, plus the number of newlines
\* inside the token's own source text (a string literal over several lines
\* reports the line of its closing quote).
C4_LineOfLastChar ==
    Succeeded =>
        /\ \A k \in 1..Len(TokenCalls) :
               result.tokens[k].line =
                   LineAt(TokenCalls[k].start) + CountLF(Slice(TokenCalls[k]))
        /\ result.tokens[Len(result.tokens)].line = LineAt(Len(source))

\* A string literal over two lines followed by a token on the second line
C4_Witness ==
    /\ Succeeded
    /\ Len(TokenCalls) >= 2
    /\ FirstChar(TokenCalls[1]) = QUOTE
    /\ CountLF(Slice(TokenCalls[1])) = 1
    /\ result.tokens[2].line = 2

----------------------------------------------------------------------------
(* C5 *)

\* C5: the last token of a successful scan is Eof with an empty lexeme and
\* line = the scanner's line = 1 + the number of newlines in the source.
C5_EofToken ==
    Succeeded =>
        /\ result.tokens[Len(result.tokens)] = [type_ |-> "Eof", lexeme |-> <<>>, line |-> line]
        /\ line = 1 + CountLF(source)

\* Newlines inside a string literal, after a comment and at top level
C5_Witness ==
    /\ Succeeded
    /\ CountLF(source) >= 2
    /\ \E k \in 1..Len(TokenCalls) : CountLF(Slice(TokenCalls[k])) >= 1

----------------------------------------------------------------------------
(* C6 *)

OneCharOperator == [c \in {"!", "=", "<", ">"} |->
    IF c = "!" THEN "Bang" ELSE IF c = "=" THEN "Equal" ELSE IF c = "<" THEN "Less" ELSE "Greater"]

TwoCharOperator == [c \in {"!", "=", "<", ">"} |->
    IF c = "!" THEN "BangEqual" ELSE IF c = "=" THEN "EqualEqual"
    ELSE IF c = "<" THEN "LessEqual" ELSE "GreaterEqual"]

\* C6: a lexeme that starts with one of ! = < > is the two-character operator
\* when the next character is =, and the one-character operator otherwise
\* (also at the end of the input); either way it yields a token.
C6_MaximalMunch ==
    /\ \A i \in 1..Len(calls) :
           FirstChar(calls[i]) \in {"!", "=", "<", ">"} => calls[i].outcome = "token"
    /\ result.tag # "Err" =>
           \A k \in 1..Len(TokenCalls) :
               LET c == TokenCalls[k]
                   ch == FirstChar(c)
               IN  ch \in {"!", "=", "<", ">"} =>
                       IF c.start + 1 < Len(source) /\ source[c.start + 2] = "="
                       THEN /\ tokens[k] = [type_ |-> TwoCharOperator[ch], lexeme |-> <<ch, "=">>,
                                            line |-> LineAt(c.start)]
                            /\ c.end = c.start + 2
                       ELSE /\ tokens[k] = [type_ |-> OneCharOperator[ch], lexeme |-> <<ch>>,
                                            line |-> LineAt(c.start)]
                            /\ c.end = c.start + 1

\* === scanned as EqualEqual, Equal, Eof
C6_Witness ==
    /\ Succeeded
    /\ source = <<"=", "=", "=">>
    /\ Len(result.tokens) = 3
    /\ result.tokens[1].type_ = "EqualEqual"
    /\ result.tokens[2].type_ = "Equal"

----------------------------------------------------------------------------
(* C7 *)

\* The spellings the token model declares: punctuation, operators, reserved
\* words and EOF
FixedSpellings == Punctuation \cup Operators \cup Keywords \cup EofSpelling

\* C7: Token::build(lexeme, line) returns the token of the matching kind with
\* that lexeme and line when the lexeme is a declared spelling, and
\* InvalidToken{line, token: lexeme} for every other lexeme.
C7_BuildIffFixedSpelling ==
    pc = "built" =>
        IF \E e \in FixedSpellings : e.s = source
        THEN \E e \in FixedSpellings :
                 /\ e.s = source
                 /\ result = [ok |-> TRUE,
                              token |-> [type_ |-> e.t, lexeme |-> source, line |-> line]]
        ELSE result = [ok |-> FALSE,
                       error |-> [kind |-> "InvalidToken", line |-> line, token |-> source]]

----------------------------------------------------------------------------
(* C8 *)

\* Number of tokens pushed by the first i scan_token calls
TokenIndex(i) == Len(SelectSeq(SubSeq(calls, 1, i), IsTokenCall))

\* End of the maximal run of alphanumeric characters that contains position pos
RECURSIVE RunEnd(_)
RunEnd(pos) ==
    IF pos < Len(source) /\ (source[pos + 1] \in Letters \cup Digits)
    THEN RunEnd(pos + 1)
    ELSE pos

\* C8: a lexeme that starts with a letter is the maximal run of letters and
\* digits; it yields the keyword token when the run is a reserved word and
\* fails with InvalidToken{line, token: run} for every other run.
C8_KeywordOrInvalid ==
    \A i \in 1..Len(calls) :
        LET c == calls[i]
            run == SubSeq(source, c.start + 1, RunEnd(c.start))
        IN  FirstChar(c) \in Letters =>
                /\ c.end = RunEnd(c.start)
                /\ IF \E e \in Keywords : e.s = run
                   THEN /\ c.outcome = "token"
                        /\ result.tag # "Err" =>
                               \E e \in Keywords :
                                   /\ e.s = run
                                   /\ tokens[TokenIndex(i)] =
                                          [type_ |-> e.t, lexeme |-> run, line |-> LineAt(c.start)]
                   ELSE /\ c.outcome = "error"
                        /\ result = [tag |-> "Err",
                                     error |-> [kind |-> "InvalidToken",
                                                line |-> LineAt(c.start), token |-> run]]

----------------------------------------------------------------------------
(* C9 *)

\* Positions (1-based) of the quotes after the opening quote of call c
LaterQuotes(c) == { q \in (c.start + 2)..Len(source) : source[q] = QUOTE }

\* The first of them
ClosingQuote(c) == CHOOSE q \in LaterQuotes(c) : \A r \in LaterQuotes(c) : q <= r

\* C9: a string literal that is closed yields one String token whose lexeme
\* is the text between the quotes, whose line is the line of the closing
\* quote, and the next lexeme starts right after the closing quote.
C9_ClosedString ==
    \A i \in 1..Len(calls) :
        LET c == calls[i]
        IN  (FirstChar(c) = QUOTE /\ LaterQuotes(c) # {}) =>
                LET q == ClosingQuote(c)
                    inside == SubSeq(source, c.start + 2, q - 1)
                IN  /\ c.outcome = "token"
                    /\ c.end = q
                    /\ i < Len(calls) => calls[i + 1].start = q
                    /\ result.tag # "Err" =>
                           tokens[TokenIndex(i)] =
                               [type_ |-> "String", lexeme |-> inside,
                                line |-> LineAt(c.start) + CountLF(inside)]

\* A literal with a newline and more inside, followed by another token
C9_Witness ==
    /\ Succeeded
    /\ Len(result.tokens) = 3
    /\ result.tokens[1].type_ = "String"
    /\ Len(result.tokens[1].lexeme) >= 1
    /\ result.tokens[1].line = 2
    /\ calls[2].start = calls[1].end

----------------------------------------------------------------------------
(* C10 *)

\* C10: a string literal that is not closed before the end of the input
\* fails the scan with UnterminatedString{line}, line being the line of the
\* opening quote plus the newlines after it; UnterminatedString is raised in
\* no other case.
C10_UnterminatedString ==
    /\ \A i \in 1..Len(calls) :
           LET c == calls[i]
           IN  (FirstChar(c) = QUOTE /\ LaterQuotes(c) = {}) =>
                   /\ c.outcome = "error"
                   /\ c.end = Len(source)
                   /\ Failed
                   /\ result.error =
                          [kind |-> "UnterminatedString",
                           line |-> LineAt(c.start)
                                      + CountLF(SubSeq(source, c.start + 1, Len(source)))]
    /\ (Failed /\ result.error.kind = "UnterminatedString") =>
           LET c == calls[Len(calls)]
           IN  FirstChar(c) = QUOTE /\ LaterQuotes(c) = {}

\* An unterminated literal with a newline in it, after a token
C10_Witness ==
    /\ Failed
    /\ result.error = [kind |-> "UnterminatedString", line |-> 2]
    /\ Len(calls) >= 2
    /\ calls[1].outcome = "token"

----------------------------------------------------------------------------
(* C11 *)

\* End of the maximal run of digits that contains position pos
RECURSIVE DigitsEnd(_)
DigitsEnd(pos) ==
    IF pos < Len(source) /\ source[pos + 1] \in Digits
    THEN DigitsEnd(pos + 1)
    ELSE pos

\* End of the numeric literal that starts at pos: the digits, and a fraction
\* when a dot and a digit follow them
NumberEnd(pos) ==
    LET d == DigitsEnd(pos)
    IN  IF d + 1 < Len(source) /\ source[d + 1] = "." /\ source[d + 2] \in Digits
        THEN DigitsEnd(d + 1)
        ELSE d

\* C11: every Number token has as lexeme the source slice of a maximal run
\* of digits, with a fraction when a dot and a digit follow; a dot after the
\* digits that is followed by a non-digit is left to the next iteration,
\* which scans it as a Dot token.
C11_NumberLexeme ==
    result.tag # "Err" =>
        \A i \in 1..Len(calls) :
            LET c == calls[i]
                k == TokenIndex(i)
            IN  (c.outcome = "token" /\ tokens[k].type_ = "Number") =>
                    /\ FirstChar(c) \in Digits
                    /\ c.end = NumberEnd(c.start)
                    /\ tokens[k].lexeme = Slice(c)
                    /\ (c.end + 1 < Len(source) /\ source[c.end + 1] = "." /\ i < Len(calls)) =>
                           /\ calls[i + 1] = [start |-> c.end, end |-> c.end + 1, outcome |-> "token"]
                           /\ tokens[k + 1] = [type_ |-> "Dot", lexeme |-> <<".">>,
                                               line |-> LineAt(c.end)]

----------------------------------------------------------------------------
(* C12 *)

\* The lexeme of call c starts with digits that run up to a dot which is the
\* last character of the source
DotEndsSource(c) ==
    /\ FirstChar(c) \in Digits
    /\ DigitsEnd(c.start) = Len(source) - 1
    /\ source[Len(source)] = "."

\* C12: a numeric literal whose digits are followed by a dot that is the last
\* character of the source fails the scan with UnterminatedFloat{line}, and
\* UnterminatedFloat is raised in no other case.
C12_UnterminatedFloat ==
    /\ \A i \in 1..Len(calls) :
           DotEndsSource(calls[i]) =>
               /\ calls[i].outcome = "error"
               /\ calls[i].end = Len(source) - 1
               /\ Failed
               /\ result.error = [kind |-> "UnterminatedFloat", line |-> LineAt(calls[i].start)]
    /\ (Failed /\ result.error.kind = "UnterminatedFloat") => DotEndsSource(calls[Len(calls)])

\* An unterminated float on the second line
C12_Witness ==
    /\ Failed
    /\ result.error = [kind |-> "UnterminatedFloat", line |-> 2]
    /\ DotEndsSource(calls[Len(calls)])

----------------------------------------------------------------------------
(* C13 *)

\* Position of the first newline at or after pos, or the end of the source
RECURSIVE LineEnd(_)
LineEnd(pos) ==
    IF pos < Len(source) /\ source[pos + 1] # LF
    THEN LineEnd(pos + 1)
    ELSE pos

\* The lexeme of call c starts with two slashes
IsComment(c) ==
    /\ FirstChar(c) = "/"
    /\ c.start + 1 < Len(source)
    /\ source[c.start + 2] = "/"

\* C13: // starts a comment that runs up to, not including, the next newline
\* or the end of the input; it yields no token and leaves `line` alone, and
\* the newline after it is consumed by the next iteration, which increments
\* `line` once.  A slash not followed by a slash yields a Slash token.
C13_LineComment ==
    /\ \A i \in 1..Len(calls) :
           LET c == calls[i]
           IN  FirstChar(c) = "/" =>
                   IF IsComment(c)
                   THEN /\ c.outcome = "skip"
                        /\ c.end = LineEnd(c.start)
                        /\ (i < Len(calls) /\ c.end < Len(source)) =>
                               calls[i + 1] = [start |-> c.end, end |-> c.end + 1,
                                               outcome |-> "skip"]
                   ELSE /\ c.outcome = "token"
                        /\ c.end = c.start + 1
                        /\ result.tag # "Err" =>
                               tokens[TokenIndex(i)] =
                                   [type_ |-> "Slash", lexeme |-> <<"/">>, line |-> LineAt(c.start)]
    /\ pc = "comment" => line = LineAt(start) /\ Len(tokens) = Len(TokenCalls)
    /\ (pc = "loop" /\ Len(calls) >= 1 /\ IsComment(calls[Len(calls)])) =>
           line = LineAt(calls[Len(calls)].start) /\ Len(tokens) = Len(TokenCalls)
    /\ (pc = "loop" /\ Len(calls) >= 2 /\ IsComment(calls[Len(calls) - 1])) =>
           line = LineAt(calls[Len(calls) - 1].start) + 1

\* A comment, its newline, and a token on the second line
C13_Witness ==
    /\ Succeeded
    /\ Len(calls) = 3
    /\ IsComment(calls[1])
    /\ calls[2].outcome = "skip"
    /\ result.tokens[1] = [type_ |-> "Dot", lexeme |-> <<".">>, line |-> 2]

----------------------------------------------------------------------------
(* C14 *)

\* The characters that start a lexeme of some kind
LexemeStarts ==
    {"(", ")", "{", "}", ",", ".", "-", "+", ";", "*", "/", "!", "=", "<", ">",
     " ", "\r", "\t", LF, QUOTE} \cup Digits \cup Letters

\* C14: a lexeme that starts with any other character fails the scan with
\* InvalidToken{line, token}, token being that one character and line
\* 1 + the number of newlines before it.
C14_InvalidCharacter ==
    \A i \in 1..Len(calls) :
        LET c == calls[i]
        IN  FirstChar(c) \notin LexemeStarts =>
                /\ c.outcome = "error"
                /\ c.end = c.start + 1
                /\ Failed
                /\ result.error = [kind |-> "InvalidToken", line |-> LineAt(c.start),
                                   token |-> <<FirstChar(c)>>]

\* A NUL character on the second line, after a token
C14_Witness ==
    /\ Failed
    /\ result.error = [kind |-> "InvalidToken", line |-> 2, token |-> <<NUL>>]
    /\ calls[1].outcome = "token"

----------------------------------------------------------------------------
(* C15 *)

\* C15: every scan starts at position 0 and line 1 whatever was scanned
\* before it, what is printed for a line depends on that line alone, and the
\* empty string yields [Eof at line 1] every time it is scanned.
C15_Independent ==
    /\ (repl = "running" /\ pc = "loop" /\ calls = <<>>) =>
           start = 0 /\ current = 0 /\ line = 1 /\ tokens = <<>>
    /\ \A i, j \in 1..Len(printed) :
           printed[i].input = printed[j].input => printed[i].result = printed[j].result
    /\ \A i \in 1..Len(printed) :
           /\ printed[i].input = <<>> =>
                  printed[i].result =
                      [tag |-> "Ok", tokens |-> <<[type_ |-> "Eof", lexeme |-> <<>>, line |-> 1]>>]
           /\ printed[i].result.tag = "Ok" =>
                  LET toks == printed[i].result.tokens
                  IN  toks[Len(toks)].line = 1 + CountLF(printed[i].input)

\* The empty string scanned twice after a line that failed
C15_Witness ==
    /\ Len(printed) = 3
    /\ printed[1].result.tag = "Err"
    /\ printed[2].input = <<>>
    /\ printed[3].input = <<>>

----------------------------------------------------------------------------
(* C16 *)

\* The line without the newline that ends it
Content(l) ==
    IF l # <<>> /\ l[Len(l)] = LF THEN SubSeq(l, 1, Len(l) - 1) ELSE l

\* C16: the prompt loop exits on a line exactly when the line is exit(), and
\* after a scan, failed or not, it goes on with the next line.
C16_ReplExit ==
    [][ /\ (repl = "prompt" /\ stdin # <<>> /\ repl' # "prompt") =>
               (repl' = "exited" <=> Content(Head(stdin)) = ExitText)
        /\ (repl = "running" /\ pc = "done" /\ printed' # printed) => repl' = "prompt"
      ]_vars

----------------------------------------------------------------------------
(* C17 *)

\* 0 <= start <= current <= length(source)
CursorBounds == 0 <= start /\ start <= current /\ current <= Len(source)

\* C17: in every state of a scan 0 <= start <= current <= length(source), on
\* success and on error paths; the cursor never moves back, it moves only when
\* current < length(source), so pop never reads past the end, and a closed
\* string literal leaves room for substring(start + 1, current - 1).
C17_CursorBounds ==
    /\ [](/\ CursorBounds
          /\ \A i \in 1..Len(calls) :
                 /\ 0 <= calls[i].start
                 /\ calls[i].start < calls[i].end
                 /\ calls[i].end <= Len(source)
                 /\ (IsTokenCall(calls[i]) /\ FirstChar(calls[i]) = QUOTE) =>
                        calls[i].start + 1 <= calls[i].end - 1)
    /\ [][/\ current' >= current
          /\ current' > current => current < Len(source)]_vars

\* The inner loops of parse_string, parse_number and of a comment each popped
\* up to the end of the source, on an error path and on successful ones
C17_Witness ==
    /\ pc = "done"
    /\ current = Len(source)
    /\ current - start = MaxPieces
    /\ source[start + 1] \in {QUOTE, "6", "/"}

----------------------------------------------------------------------------
(* C18 *)

\* C18: `line` starts at 1 and never decreases; at every lexeme boundary, and
\* when the scan has ended, it is 1 + the number of newlines in
\* source[0..current]; every step adds to it the number of newlines the step
\* consumed, at top level, after a comment or inside a string literal, and no
\* other character changes it.
C18_LineCounter ==
    /\ [](/\ line >= 1
          /\ (calls = <<>> /\ current = 0) => line = 1
          /\ pc \in {"loop", "done"} => line = LineAt(current))
    /\ [][/\ line' >= line
          /\ line' - line = CountLF(SubSeq(source, current + 1, current'))]_vars

\* A newline inside a string literal, then a newline at top level
C18_Witness ==
    /\ Succeeded
    /\ line = 3
    /\ \E i \in 1..Len(calls) :
           /\ IsTokenCall(calls[i])
           /\ FirstChar(calls[i]) = QUOTE
           /\ CountLF(Slice(calls[i])) = 1
    /\ \E i \in 1..Len(calls) : calls[i].outcome = "skip" /\ Slice(calls[i]) = <<LF>>

----------------------------------------------------------------------------
(* C19 *)

\* The positions strictly inside the lexeme of call c
Inside(c) == (c.start + 1)..(c.end - 1)

\* C19: a string literal runs from its opening quote to the first later quote
\* (or fails with UnterminatedString at the end of the input) and a comment
\* runs to the end of its line, whatever characters they hold: the call yields
\* one String token with the characters between the quotes, or no token for a
\* comment, no scan_token call starts inside either of them, and InvalidToken
\* is raised only for a lexeme that starts after them and names that lexeme.
C19_ModeIsolation ==
    /\ \A i \in 1..Len(calls) :
           LET c == calls[i]
           IN  /\ FirstChar(c) = QUOTE =>
                      IF LaterQuotes(c) # {}
                      THEN /\ c.end = ClosingQuote(c)
                           /\ c.outcome = "token"
                           /\ ~Failed =>
                                  /\ tokens[TokenIndex(i)].type_ = "String"
                                  /\ tokens[TokenIndex(i)].lexeme =
                                         SubSeq(source, c.start + 2, c.end - 1)
                      ELSE /\ c.end = Len(source)
                           /\ c.outcome = "error"
                           /\ result.error.kind = "UnterminatedString"
               /\ IsComment(c) => c.end = LineEnd(c.start) /\ c.outcome = "skip"
               /\ (FirstChar(c) = QUOTE \/ IsComment(c)) =>
                      \A j \in 1..Len(calls) : calls[j].start \notin Inside(c)
    /\ ~Failed => Len(tokens) = Len(TokenCalls) + (IF pc = "done" THEN 1 ELSE 0)
    /\ (Failed /\ result.error.kind = "InvalidToken") =>
           LET c == calls[Len(calls)]
           IN  /\ FirstChar(c) # QUOTE
               /\ ~IsComment(c)
               /\ result.error.token = Slice(c)
               /\ \A j \in 1..Len(calls) :
                      (FirstChar(calls[j]) = QUOTE \/ IsComment(calls[j])) =>
                          calls[j].end <= c.start

\* A string literal that holds // and an unknown character, then a comment
\* that holds a quote
C19_Witness ==
    /\ Succeeded
    /\ Len(calls) = 2
    /\ result.tokens = <<Token_new("String", <<"/", "/", NUL>>, 1), Token_new("Eof", <<>>, 1)>>
    /\ IsComment(calls[2])
    /\ QUOTE \in { source[p] : p \in (calls[2].start + 1)..calls[2].end }

----------------------------------------------------------------------------
(* C20 *)

\* C20: in a successful result the k-th token is the one of the k-th
\* scan_token call that returned a token, its lexeme is the source text of
\* that call (without the quotes for a string literal), the ranges of these
\* calls follow each other in the source without overlap, Eof comes last, and
\* the line numbers never decrease along the sequence.
C20_SourceOrder ==
    Succeeded =>
        /\ Len(result.tokens) = Len(TokenCalls) + 1
        /\ \A k \in 1..Len(TokenCalls) :
               LET c == TokenCalls[k]
               IN  /\ c.start < c.end
                   /\ result.tokens[k].lexeme =
                          IF FirstChar(c) = QUOTE
                          THEN SubSeq(source, c.start + 2, c.end - 1)
                          ELSE Slice(c)
                   /\ k < Len(TokenCalls) => c.end <= TokenCalls[k + 1].start
        /\ \A k \in 1..(Len(result.tokens) - 1) :
               result.tokens[k].line <= result.tokens[k + 1].line

\* Two different tokens on two lines
C20_Witness ==
    /\ Succeeded
    /\ Len(TokenCalls) = 2
    /\ result.tokens[1].type_ # result.tokens[2].type_
    /\ TokenCalls[1].end < TokenCalls[2].start
    /\ result.tokens[1].line < result.tokens[2].line

====
